---- MODULE Spec2Model ----
(***************************************************************************)
(* Decision-tree fitting and prediction of src/src/decision_tree.rs.       *)
(*                                                                         *)
(* A row of the table is a record [id, f, y]: id is the row's position in  *)
(* the table handed to Tree::fit, f its feature values (a function over    *)
(* the column indices 0 .. columns-1) and y its target value.  A table is  *)
(* the sequence of its rows in their current order; Rust row index i is    *)
(* position i+1 of the sequence.                                           *)
(*                                                                         *)
(* f64 values: feature values and targets are integers, NaN is the value   *)
(* NaN below; impurities, gains and labels are exact rationals [n, d] in   *)
(* lowest terms (f64 rounding is not modelled).  Option<T> is a sequence   *)
(* of length 0 (None) or 1 (Some).                                         *)
(*                                                                         *)
(* Table (crate::table) and mean / most_frequent (crate::functions) are    *)
(* not part of decision_tree.rs; they are modelled from their contracts.   *)
(***************************************************************************)
EXTENDS Integers, Sequences, FiniteSets, TLC

VARIABLES input, columns, classification, stack, nodes, calls, status, answer

vars == <<input, columns, classification, stack, nodes, calls, status, answer>>

---------------------------------------------------------------------------
(* Bounds of the inputs *)

MaxRows == 3

\* the f64 NaN; every other feature value is a positive integer
NaN == -1

FeatureValues == {1, 2, NaN}

TargetValues == {0, 1}

ColumnCounts == {1, 2}

\* the table of the end-to-end regression example: one column, four rows
ExampleTable ==
    << [id |-> 1, f |-> (0 :> 1), y |-> 0],
       [id |-> 2, f |-> (0 :> 2), y |-> 0],
       [id |-> 3, f |-> (0 :> 3), y |-> 10],
       [id |-> 4, f |-> (0 :> 4), y |-> 10] >>

---------------------------------------------------------------------------
(* f64 arithmetic, as exact rationals *)

RECURSIVE GCD(_, _)
GCD(a, b) == IF b = 0 THEN a ELSE GCD(b, a % b)

Abs(a) == IF a < 0 THEN -a ELSE a

R(n, d) ==
    LET g == GCD(Abs(n), Abs(d))
        s == IF d < 0 THEN -1 ELSE 1
    IN  [n |-> (s * n) \div g, d |-> (s * d) \div g]

RInt(i) == [n |-> i, d |-> 1]

RAdd(a, b) == R(a.n * b.d + b.n * a.d, a.d * b.d)

RSub(a, b) == R(a.n * b.d - b.n * a.d, a.d * b.d)

RMul(a, b) == R(a.n * b.n, a.d * b.d)

RLess(a, b) == a.n * b.d < b.n * a.d

IsNan(f) == f = NaN

\* a <= b on f64: false as soon as one side is NaN
FLe(a, b) == ~IsNan(a) /\ ~IsNan(b) /\ a <= b

---------------------------------------------------------------------------
(* crate::functions *)

RECURSIVE SumSeq(_)
SumSeq(s) == IF s = <<>> THEN 0 ELSE Head(s) + SumSeq(Tail(s))

mean(target) == R(SumSeq(target), Len(target))

Count(target, v) == Cardinality({i \in 1..Len(target) : target[i] = v})

\* the value with the highest occurrence count, the first encountered on a tie
most_frequent(target) ==
    LET best == CHOOSE i \in 1..Len(target) :
                   /\ \A j \in 1..Len(target) : Count(target, target[j]) <= Count(target, target[i])
                   /\ \A j \in 1..(i - 1) : Count(target, target[j]) < Count(target, target[i])
    IN  RInt(target[best])

---------------------------------------------------------------------------
(* Criterion: Mse::calculate *)

RECURSIVE SumSqDev(_, _)
SumSqDev(target, m) ==
    IF target = <<>> THEN RInt(0)
    ELSE LET dev == RSub(RInt(Head(target)), m)
         IN  RAdd(RMul(dev, dev), SumSqDev(Tail(target), m))

calculate(target) ==
    LET n == Len(target)
        m == mean(target)
    IN  RMul(SumSqDev(target, m), R(1, n))

---------------------------------------------------------------------------
(* crate::table::Table *)

target(table) == [i \in 1..Len(table) |-> table[i].y]

features(table, column) == [i \in 1..Len(table) |-> table[i].f[column]]

is_single_target(table) == \A i, j \in 1..Len(table) : table[i].y = table[j].y

\* every arrangement of the rows with the column non-decreasing: the order among
\* equal values is unspecified
sort_rows_by_feature(table, column) ==
    { [i \in 1..Len(table) |-> table[p[i]]] : p \in
        { q \in Permutations(1..Len(table)) :
            \A i \in 1..(Len(table) - 1) : table[q[i]].f[column] <= table[q[i + 1]].f[column] } }

\* (row_index, threshold) at every boundary where the sorted column strictly
\* increases; threshold is the value of the first row right of the boundary
thresholds(table, column) ==
    LET all == [i \in 1..(Len(table) - 1) |-> [row |-> i, threshold |-> table[i + 1].f[column]]]
        Inc(c) == table[c.row].f[column] < table[c.row + 1].f[column]
    IN  IF Len(table) < 2 THEN <<>> ELSE SelectSeq(all, Inc)

\* with_split with the boundary row in both tables
with_split_overlapping(table, row) ==
    [left |-> SubSeq(table, 1, row + 1), right |-> SubSeq(table, row + 1, Len(table))]

\* rows [0, row) and [row, end) as two tables
with_split(table, row) ==
    [left |-> SubSeq(table, 1, row), right |-> SubSeq(table, row + 1, Len(table))]

---------------------------------------------------------------------------
(* Tree, Node, SplitPoint *)

SplitPoint(information_gain, column, threshold) ==
    [information_gain |-> information_gain, column |-> column, threshold |-> threshold]

\* Node::new, then children filled in by build; a node is stored under its path
\* from the root (0 = left, 1 = right)
Node(path, label, children) == [path |-> path, label |-> label, children |-> children]

NodeAt(path) == CHOOSE n \in nodes : n.path = path

\* predict that wants a full feature vector before it looks at the node
RECURSIVE predict_full_vector(_, _)
predict_full_vector(path, xs) ==
    LET node == NodeAt(path)
    IN  IF Len(xs) < columns
        THEN [fault |-> TRUE, leaf |-> path, label |-> <<>>]
        ELSE IF node.children # <<>>
             THEN IF FLe(xs[node.children[1].column + 1], node.children[1].threshold)
                  THEN predict_full_vector(Append(path, 0), xs)
                  ELSE predict_full_vector(Append(path, 1), xs)
             ELSE [fault |-> FALSE, leaf |-> path, label |-> <<node.label>>]

\* Node::predict: the leaf reached from the node at path, or the fault of
\* indexing xs out of bounds
RECURSIVE predict(_, _)
predict(path, xs) ==
    LET node == NodeAt(path)
    IN  IF node.children # <<>>
        THEN LET split == node.children[1]
             IN  IF split.column >= Len(xs)
                 THEN [fault |-> TRUE, leaf |-> path, label |-> <<>>]
                 ELSE IF FLe(xs[split.column + 1], split.threshold)
                      THEN predict(Append(path, 0), xs)
                      ELSE predict(Append(path, 1), xs)
        ELSE [fault |-> FALSE, leaf |-> path, label |-> <<node.label>>]

---------------------------------------------------------------------------
(* NodeBuilder::build *)

\* the fallback label of a node that is not pure
Label(table) ==
    IF classification THEN most_frequent(target(table)) ELSE mean(target(table))

\* the information gain of splitting the sorted table before Rust row index row
InformationGain(table, row, rows, impurity) ==
    LET impurity_l == calculate(SubSeq(target(table), 1, row))
        impurity_r == calculate(SubSeq(target(table), row + 1, Len(table)))
        n_l == R(row, rows)
        n_r == RSub(RInt(1), n_l)
    IN  RSub(impurity, RAdd(RMul(n_l, impurity_l), RMul(n_r, impurity_r)))

\* the comparison of the gains the wrong way round
Replaces_smaller(best, information_gain) ==
    best = <<>> \/ RLess(information_gain, best[1].information_gain)

\* replacement on an equal gain too
Replaces_not_smaller(best, information_gain) ==
    best = <<>> \/ ~RLess(information_gain, best[1].information_gain)

\* does a candidate of this gain replace the best one seen so far
Replaces(best, information_gain) ==
    best = <<>> \/ RLess(best[1].information_gain, information_gain)

\* the inner loop: the candidates cs of a column of the sorted table, in order;
\* acc is [best, cands, calcs]
RECURSIVE ScanThresholds(_, _, _, _, _, _)
ScanThresholds(table, column, cs, rows, impurity, acc) ==
    IF cs = <<>> THEN acc
    ELSE LET c == Head(cs)
             gain == InformationGain(table, c.row, rows, impurity)
             cand == [column |-> column, row |-> c.row, threshold |-> c.threshold,
                      information_gain |-> gain]
             best == IF Replaces(acc.best, gain)
                     THEN <<SplitPoint(gain, column, c.threshold)>>
                     ELSE acc.best
         IN  ScanThresholds(table, column, Tail(cs), rows, impurity,
                            [best |-> best, cands |-> Append(acc.cands, cand),
                             calcs |-> acc.calcs + 2])

\* the NaN check made once, on the table handed to fit
Skipped_at_root(table, column) == \E i \in 1..Len(input) : IsNan(input[i].f[column])

\* is the column left out of the search at this node
Skipped(table, column) == \E i \in 1..Len(table) : IsNan(features(table, column)[i])

\* the outer loop from column on: the set of outcomes
\* [table, best, cands, sorted, calcs], one per order the sorts can produce
RECURSIVE ScanColumns(_, _, _, _, _)
ScanColumns(column, rows, impurity, table, acc) ==
    IF column >= columns THEN {[table |-> table] @@ acc}
    ELSE IF Skipped(table, column)
         THEN ScanColumns(column + 1, rows, impurity, table, acc)
         ELSE UNION { ScanColumns(column + 1, rows, impurity, sorted,
                        [sorted |-> Append(acc.sorted, column)] @@
                        ScanThresholds(sorted, column, thresholds(sorted, column), rows, impurity,
                                       [best |-> acc.best, cands |-> acc.cands, calcs |-> acc.calcs]))
                      : sorted \in sort_rows_by_feature(table, column) }

\* the split search of build on a table that is not pure
Search(table) ==
    LET impurity == calculate(target(table))
        rows == Len(target(table))
    IN  ScanColumns(0, rows, impurity, table,
                    [best |-> <<>>, cands |-> <<>>, sorted |-> <<>>, calcs |-> 1])

---------------------------------------------------------------------------
(* NodeBuilder::build_children *)

\* the index after the last row not greater than the key
binary_search_upper(column, key) ==
    {Cardinality({i \in 1..Len(column) : column[i] <= key})}

\* slice::binary_search_by_key then unwrap_or_else(|i| i): the Rust indices it can
\* return.  Any index holding the key when there is one (which one is
\* unspecified), else the insertion point.
binary_search(column, key) ==
    LET hits == {i \in 0..(Len(column) - 1) : column[i + 1] = key}
    IN  IF hits # {} THEN hits
        ELSE {Cardinality({i \in 1..Len(column) : column[i] < key})}

\* the outcomes [sorted, row, left, right] of materialising the split
build_children(table, split) ==
    UNION { { [sorted |-> sorted, row |-> row] @@ with_split(sorted, row)
              : row \in binary_search(features(sorted, split.column), split.threshold) }
            : sorted \in sort_rows_by_feature(table, split.column) }

---------------------------------------------------------------------------
(* The state machine: Tree::fit as a stack of pending build calls, then predict *)

\* a row as the vector of its feature values followed by its target
RowVec(r, k) == [i \in 1..(k + 1) |-> IF i <= k THEN r.f[i - 1] ELSE r.y]

LexLeq(u, v) ==
    u = v \/ \E i \in 1..Len(u) : u[i] < v[i] /\ \A j \in 1..(i - 1) : u[j] = v[j]

\* the tables of n rows and k columns, one per multiset of rows: the rows are
\* listed in non-increasing order, so that every sort has work to do; the order
\* among equal values after a sort is arbitrary whatever the order before it
Rows(n, k) ==
    { t \in { [i \in 1..n |-> [id |-> i, f |-> fs[i], y |-> ys[i]]] :
                fs \in [1..n -> [0..(k - 1) -> FeatureValues]], ys \in [1..n -> TargetValues] } :
        \A i \in 1..(n - 1) : LexLeq(RowVec(t[i + 1], k), RowVec(t[i], k)) }

Call(path, table) == [path |-> path, table |-> table]

Init ==
    /\ \/ /\ columns \in ColumnCounts
          /\ \E n \in 0..MaxRows : input \in Rows(n, columns)
       \/ input = ExampleTable /\ columns = 1
    /\ classification \in BOOLEAN
    /\ stack = <<Call(<<>>, input)>>
    /\ nodes = {}
    /\ calls = {}
    /\ status = "building"
    /\ answer = <<>>

\* build returns a leaf: the stop condition holds
BuildLeaf ==
    /\ status = "building"
    /\ LET call == Head(stack)
           table == call.table
       IN  /\ is_single_target(table)
           /\ table # <<>>
           /\ nodes' = nodes \cup {Node(call.path, RInt(target(table)[1]), <<>>)}
           /\ calls' = calls \cup
                {[path |-> call.path, table |-> table, leaf |-> TRUE, cands |-> <<>>,
                  sorted |-> <<>>, sorts |-> 0, calcs |-> 0, split |-> <<>>,
                  row |-> <<>>, left |-> <<>>, right |-> <<>>]}
           /\ stack' = Tail(stack)
           /\ status' = IF Tail(stack) = <<>> THEN "done" ELSE "building"
    /\ UNCHANGED <<input, columns, classification, answer>>

\* build finds the best split and hands both parts to build_children
BuildSplit ==
    /\ status = "building"
    /\ LET call == Head(stack)
           table == call.table
       IN  /\ ~is_single_target(table)
           /\ \E scan \in Search(table) :
                /\ scan.best # <<>>
                /\ \E ch \in build_children(scan.table, scan.best[1]) :
                     /\ nodes' = nodes \cup {Node(call.path, Label(table), scan.best)}
                     /\ calls' = calls \cup
                          {[path |-> call.path, table |-> table, leaf |-> FALSE,
                            cands |-> scan.cands, sorted |-> scan.sorted,
                            sorts |-> Len(scan.sorted) + 1, calcs |-> scan.calcs,
                            split |-> scan.best, row |-> <<ch.row>>,
                            left |-> ch.left, right |-> ch.right]}
                     /\ stack' = <<Call(Append(call.path, 0), ch.left),
                                   Call(Append(call.path, 1), ch.right)>> \o Tail(stack)
           /\ status' = "building"
    /\ UNCHANGED <<input, columns, classification, answer>>

\* a search without a candidate falls back to a leaf with the fallback label
BuildFault_leaf_fallback ==
    /\ status = "building"
    /\ LET call == Head(stack)
           table == call.table
       IN  \/ /\ is_single_target(table)
              /\ table = <<>>
              /\ calls' = calls \cup
                   {[path |-> call.path, table |-> table, leaf |-> FALSE, cands |-> <<>>,
                     sorted |-> <<>>, sorts |-> 0, calcs |-> 0, split |-> <<>>,
                     row |-> <<>>, left |-> <<>>, right |-> <<>>]}
              /\ nodes' = {}
              /\ stack' = <<>>
              /\ status' = "fault"
           \/ /\ ~is_single_target(table)
              /\ \E scan \in Search(table) :
                   /\ scan.best = <<>>
                   /\ calls' = calls \cup
                        {[path |-> call.path, table |-> table, leaf |-> FALSE,
                          cands |-> scan.cands, sorted |-> scan.sorted,
                          sorts |-> Len(scan.sorted), calcs |-> scan.calcs,
                          split |-> <<>>, row |-> <<>>, left |-> <<>>, right |-> <<>>]}
              /\ nodes' = nodes \cup {Node(call.path, Label(table), <<>>)}
              /\ stack' = Tail(stack)
              /\ status' = IF Tail(stack) = <<>> THEN "done" ELSE "building"
    /\ UNCHANGED <<input, columns, classification, answer>>

\* an expect("never fails") fails: the fit panics and no tree is returned
BuildFault ==
    /\ status = "building"
    /\ LET call == Head(stack)
           table == call.table
       IN  \/ /\ is_single_target(table)
              /\ table = <<>>
              /\ calls' = calls \cup
                   {[path |-> call.path, table |-> table, leaf |-> FALSE, cands |-> <<>>,
                     sorted |-> <<>>, sorts |-> 0, calcs |-> 0, split |-> <<>>,
                     row |-> <<>>, left |-> <<>>, right |-> <<>>]}
           \/ /\ ~is_single_target(table)
              /\ \E scan \in Search(table) :
                   /\ scan.best = <<>>
                   /\ calls' = calls \cup
                        {[path |-> call.path, table |-> table, leaf |-> FALSE,
                          cands |-> scan.cands, sorted |-> scan.sorted,
                          sorts |-> Len(scan.sorted), calcs |-> scan.calcs,
                          split |-> <<>>, row |-> <<>>, left |-> <<>>, right |-> <<>>]}
    /\ nodes' = {}
    /\ stack' = <<>>
    /\ status' = "fault"
    /\ UNCHANGED <<input, columns, classification, answer>>

\* the feature vectors predict is called with: every length up to the number of
\* columns, over the feature values of the inputs
QueryValues == FeatureValues \cup {input[i].f[c] : i \in 1..Len(input), c \in 0..(columns - 1)}

Queries == UNION { [1..n -> QueryValues] : n \in 0..columns }

\* Tree::predict on the fitted tree; answer keeps the call and its result (the
\* tree is immutable, so one call is recorded)
Predict ==
    /\ status = "done"
    /\ answer = <<>>
    /\ \E xs \in Queries : answer' = <<[xs |-> xs] @@ predict(<<>>, xs)>>
    /\ UNCHANGED <<input, columns, classification, stack, nodes, calls, status>>

Next == BuildLeaf \/ BuildSplit \/ BuildFault \/ Predict

Spec == Init /\ [][Next]_vars

TypeOK ==
    /\ status \in {"building", "done", "fault"}
    /\ (status = "building") = (stack # <<>>)
    /\ Len(answer) <= 1

---------------------------------------------------------------------------
(* Vocabulary of the properties *)

RowSet(table) == {table[i] : i \in 1..Len(table)}

\* the build calls that produced an internal node
Internal == {c \in calls : c.split # <<>>}

\* every build call made or pending, as [path, table]
Invocations ==
    {Call(c.path, c.table) : c \in calls} \cup {stack[i] : i \in 1..Len(stack)}

Cols == 0..(columns - 1)

HasNan(table, column) == \E r \in RowSet(table) : r.f[column] = NaN

\* the index of the first candidate of maximal gain, in scan order
FirstMax(cands) ==
    CHOOSE m \in 1..Len(cands) :
        /\ \A i \in 1..Len(cands) : ~RLess(cands[m].information_gain, cands[i].information_gain)
        /\ \A i \in 1..(m - 1) : RLess(cands[i].information_gain, cands[m].information_gain)

IsPrefix(p, q) == Len(p) <= Len(q) /\ SubSeq(q, 1, Len(p)) = p

---------------------------------------------------------------------------
(* C1 - C10 *)

\* C1: at every internal node the rows partitioned left have
\* feature[split.column] <= split.threshold, the rows partitioned right have
\* feature[split.column] > split.threshold, and both parts are non-empty
C1_PartitionAgreesWithPredict ==
    \A c \in Internal :
        LET split == c.split[1]
        IN  /\ c.left # <<>> /\ c.right # <<>>
            /\ \A r \in RowSet(c.left) : FLe(r.f[split.column], split.threshold)
            /\ \A r \in RowSet(c.right) : ~FLe(r.f[split.column], split.threshold)

\* C2: on the example table with MSE and classification = false the root splits
\* column 0 at threshold 3 into a left leaf 0 and a right leaf 10, and predict
\* gives 0 for [2], 10 for [3] and 10 for [4]
C2_RegressionExample ==
    (input = ExampleTable /\ ~classification) =>
        /\ status # "fault"
        /\ status = "done" =>
             /\ Cardinality(nodes) = 3
             /\ NodeAt(<<>>).children # <<>>
             /\ NodeAt(<<>>).children[1].column = 0
             /\ NodeAt(<<>>).children[1].threshold = 3
             /\ NodeAt(<<0>>) = Node(<<0>>, RInt(0), <<>>)
             /\ NodeAt(<<1>>) = Node(<<1>>, RInt(10), <<>>)
        /\ \A i \in 1..Len(answer) :
             /\ answer[i].xs = <<2>> => answer[i].label = <<RInt(0)>>
             /\ answer[i].xs = <<3>> => answer[i].label = <<RInt(10)>>
             /\ answer[i].xs = <<4>> => answer[i].label = <<RInt(10)>>

\* C3: a non-empty table whose targets are all equal is fitted to a single leaf
\* labelled with that value, with no sort and no criterion call, and predict
\* returns the label for every input vector, the empty one included
C3_PureTableIsLeaf ==
    (input # <<>> /\ \A r \in RowSet(input) : r.y = input[1].y) =>
        /\ status # "fault"
        /\ \A c \in calls : c.path = <<>> /\ c.leaf /\ c.sorts = 0 /\ c.calcs = 0
        /\ status = "done" => nodes = {Node(<<>>, RInt(input[1].y), <<>>)}
        /\ \A i \in 1..Len(answer) :
             ~answer[i].fault /\ answer[i].label = <<RInt(input[1].y)>>

C3_Witness ==
    /\ input # <<>> /\ \A r \in RowSet(input) : r.y = input[1].y
    /\ answer # <<>> /\ answer[1].xs = <<>>

\* C4: the gain recorded at an internal node is the gain of one of the candidates
\* enumerated at that node and no enumerated candidate has a greater one
C4_BestGainIsMaximal ==
    \A c \in Internal :
        /\ \E i \in 1..Len(c.cands) :
             c.cands[i].information_gain = c.split[1].information_gain
        /\ \A i \in 1..Len(c.cands) :
             ~RLess(c.split[1].information_gain, c.cands[i].information_gain)

C4_Witness ==
    \E c \in Internal : \E i, j \in 1..Len(c.cands) :
        RLess(c.cands[i].information_gain, c.cands[j].information_gain)

C6_NanColumnsSkippedPerNode ==
    \A c \in calls :
        (c.table # <<>> /\ ~c.leaf) =>
            /\ {c.sorted[i] : i \in 1..Len(c.sorted)} = {k \in Cols : ~HasNan(c.table, k)}
            /\ \A i \in 1..Len(c.cands) : ~HasNan(c.table, c.cands[i].column)
            /\ \A i \in 1..Len(c.split) : ~HasNan(c.table, c.split[i].column)

\* a column skipped at a node is the split column of a descendant
C6_Witness ==
    \E c, d \in Internal :
        /\ IsPrefix(c.path, d.path) /\ c.path # d.path
        /\ HasNan(c.table, d.split[1].column)

\* C7: the two tables handed to the recursive build calls hold disjoint rows
\* whose union is the rows of the node's table, each row unchanged
C7_ChildrenPartitionRows ==
    \A c \in Internal :
        /\ RowSet(c.left) \cap RowSet(c.right) = {}
        /\ RowSet(c.left) \cup RowSet(c.right) = RowSet(c.table)
        /\ Len(c.left) + Len(c.right) = Len(c.table)
        /\ \A d \in Invocations :
             /\ d.path = Append(c.path, 0) => d.table = c.left
             /\ d.path = Append(c.path, 1) => d.table = c.right

C7_Witness ==
    \E c \in Internal : \E l, r \in calls :
        /\ l.path = Append(c.path, 0) /\ r.path = Append(c.path, 1)
        /\ Len(c.table) = 3

\* no column of the table offers a candidate: each holds a NaN or one repeated value
NoCandidate(table) ==
    \A k \in Cols : HasNan(table, k) \/ \A r, q \in RowSet(table) : r.f[k] = q.f[k]

\* C8: a build call on a table whose targets differ and that offers no candidate,
\* or on an empty table, ends the fit with a fault and no tree; a leaf is made
\* only of a table whose targets are all equal
C8_NoCandidateIsFault ==
    /\ \A c \in calls :
         (c.table = <<>> \/ (~is_single_target(c.table) /\ NoCandidate(c.table))) =>
             status = "fault" /\ nodes = {} /\ answer = <<>>
    /\ \A c \in calls : c.leaf => c.table # <<>> /\ is_single_target(c.table)
    /\ \A n \in nodes : n.children = <<>> =>
         \E c \in calls : c.path = n.path /\ c.leaf
    /\ input = <<>> => status # "done" /\ nodes = {}

C8_Witness ==
    \E c \in calls :
        /\ c.path # <<>>
        /\ ~is_single_target(c.table) /\ NoCandidate(c.table)
        /\ status = "fault"

\* C9: the row at which build_children partitions the table is the index of the
\* first row whose value in the split column is not less than the threshold,
\* which is the row index of the winning candidate
C9_SplitRowIsCandidateRow ==
    \A c \in Internal :
        LET split == c.split[1]
            first == Cardinality({r \in RowSet(c.table) : r.f[split.column] < split.threshold})
        IN  /\ c.row[1] = first
            /\ \E i \in 1..Len(c.cands) :
                 /\ c.cands[i].column = split.column
                 /\ c.cands[i].threshold = split.threshold
                 /\ c.cands[i].row = c.row[1]

\* C10: every recursive build call receives a non-empty table with fewer rows
\* than its parent's, so no call is nested deeper than rows - 1 and the calls of
\* one fit number at most 2 * rows - 1
C10_RecursionShrinks ==
    /\ \A d \in Invocations :
         d.path # <<>> =>
             /\ d.table # <<>>
             /\ \E c \in Internal :
                  /\ c.path = SubSeq(d.path, 1, Len(d.path) - 1)
                  /\ Len(d.table) < Len(c.table)
             /\ Len(d.path) <= Len(input) - 1
    /\ \A n \in nodes : n.path # <<>> => Len(n.path) <= Len(input) - 1
    /\ input # <<>> => Cardinality({d.path : d \in Invocations}) <= 2 * Len(input) - 1

C10_Witness ==
    \E c \in calls : Len(input) = 3 /\ Len(c.path) = 2

====
